---------------------------- MODULE Spec2Model ----------------------------
(***************************************************************************)
(* Model of src/main.py: a FastAPI service that stores resumes as files    *)
(* and runs three analysis handlers (analyze_skills, skill_gap_analysis,   *)
(* weekly_learning_task_generator) against an Ollama text-generation       *)
(* backend, extracting JSON from the completions it returns.               *)
(*                                                                         *)
(* Text is modelled as a sequence of tokens (a token stands for one        *)
(* lexical unit of the completion: a brace, a quoted string, a prose word, *)
(* a fence marker, a blank).  json.loads is modelled by a recursive        *)
(* descent parser over those tokens, Python values by tagged records.      *)
(***************************************************************************)
EXTENDS Integers, Sequences, FiniteSets, TLC

(***************************************************************************)
(* Python / JSON values.                                                   *)
(***************************************************************************)
JNull == [t |-> "null"]
JNum(n) == [t |-> "num", n |-> n]
JStr(s) == [t |-> "str", s |-> s]
JArr(a) == [t |-> "arr", a |-> a]
JObj(o) == [t |-> "obj", o |-> o]

\* Optional[str] request fields: None is <<>>, a supplied value x is <<x>>.
None == << >>
Some(x) == << x >>

\* bool(v) of a Python value, as `if missing_skills:` / `if not weekly_tasks:` use it
Truthy(v) ==
    CASE v.t = "null" -> FALSE
      [] v.t = "num" -> v.n # 0
      [] v.t = "str" -> v.s # ""
      [] v.t = "arr" -> v.a # << >>
      [] v.t = "obj" -> DOMAIN v.o # {}

\* bool(x) of an Optional[str] field: None and the empty string are falsy.
\* A resume id is a string, a resume text a sequence of characters.
TruthyId(x) == x # None /\ x[1] # ""
TruthyText(x) == x # None /\ x[1] # << >>

\* ', '.join(v): TRUE when the join succeeds, FALSE when it raises TypeError
\* (v not iterable, or an item that is not a str).  Iterating a dict yields
\* its keys, which are strings; iterating a str yields its characters.
JoinOk(v) ==
    CASE v.t = "arr" -> \A i \in 1..Len(v.a) : v.a[i].t = "str"
      [] v.t = "str" -> TRUE
      [] v.t = "obj" -> TRUE
      [] OTHER -> FALSE

(***************************************************************************)
(* Tokens of a completion text.                                            *)
(***************************************************************************)
Whitespace == {" ", "\n"}
StringContents ==
    {"skills", "years_experience", "role_suggestions", "missing_skills",
     "weekly_tasks", "skill", "tasks", "A", "B", "t", "3y"}
Quote(s) == "\"" \o s \o "\""
IsLiteral(tok) == \E s \in StringContents : tok = Quote(s)
Unquote(tok) == CHOOSE s \in StringContents : tok = Quote(s)
NumberTokens == {"7", "0"}
NumberValue(tok) == IF tok = "7" THEN 7 ELSE 0

(***************************************************************************)
(* str methods used by the handlers, on token sequences.  Indexes are      *)
(* Python's: 0-based, -1 for "not found".                                  *)
(***************************************************************************)
RECURSIVE lstrip(_)
lstrip(s) ==
    IF s # << >> /\ Head(s) \in Whitespace THEN lstrip(Tail(s)) ELSE s

RECURSIVE rstrip(_)
rstrip(s) ==
    IF s # << >> /\ s[Len(s)] \in Whitespace
    THEN rstrip(SubSeq(s, 1, Len(s) - 1)) ELSE s

strip(s) == rstrip(lstrip(s))

startswith(s, p) == Len(s) >= Len(p) /\ SubSeq(s, 1, Len(p)) = p
endswith(s, p) == Len(s) >= Len(p) /\ SubSeq(s, Len(s) - Len(p) + 1, Len(s)) = p

\* s.find(ch)
find(s, ch) ==
    IF \E i \in 1..Len(s) : s[i] = ch
    THEN (CHOOSE i \in 1..Len(s) : s[i] = ch /\ \A j \in 1..(i - 1) : s[j] # ch) - 1
    ELSE -1

\* s.rfind(ch)
rfind(s, ch) ==
    IF \E i \in 1..Len(s) : s[i] = ch
    THEN (CHOOSE i \in 1..Len(s) : s[i] = ch /\ \A j \in (i + 1)..Len(s) : s[j] # ch) - 1
    ELSE -1

\* s[a:b] for 0 <= a <= b
Slice(s, a, b) == SubSeq(s, a + 1, IF b > Len(s) THEN Len(s) ELSE b)

(***************************************************************************)
(* json.loads: a value, surrounded by optional whitespace, and nothing     *)
(* else.  ok = FALSE stands for json.JSONDecodeError.                      *)
(***************************************************************************)
ParseFail == [ok |-> FALSE]
ParseOk(v, next) == [ok |-> TRUE, v |-> v, next |-> next]

RECURSIVE SkipWs(_, _)
SkipWs(s, i) ==
    IF i <= Len(s) /\ s[i] \in Whitespace THEN SkipWs(s, i + 1) ELSE i

RECURSIVE ParseValue(_, _)
RECURSIVE ParseElements(_, _, _)
RECURSIVE ParseMembers(_, _, _)

ParseValue(s, i) ==
    LET j == SkipWs(s, i) IN
    IF j > Len(s) THEN ParseFail
    ELSE CASE s[j] = "null" -> ParseOk(JNull, j + 1)
           [] s[j] \in NumberTokens -> ParseOk(JNum(NumberValue(s[j])), j + 1)
           [] IsLiteral(s[j]) -> ParseOk(JStr(Unquote(s[j])), j + 1)
           [] s[j] = "[" ->
                LET k == SkipWs(s, j + 1) IN
                IF k <= Len(s) /\ s[k] = "]"
                THEN ParseOk(JArr(<< >>), k + 1)
                ELSE ParseElements(s, j + 1, << >>)
           [] s[j] = "{" ->
                LET k == SkipWs(s, j + 1) IN
                IF k <= Len(s) /\ s[k] = "}"
                THEN ParseOk(JObj(<< >>), k + 1)
                ELSE ParseMembers(s, j + 1, << >>)
           [] OTHER -> ParseFail

ParseElements(s, i, acc) ==
    LET r == ParseValue(s, i) IN
    IF ~r.ok THEN ParseFail
    ELSE LET k == SkipWs(s, r.next) IN
         IF k > Len(s) THEN ParseFail
         ELSE CASE s[k] = "," -> ParseElements(s, k + 1, Append(acc, r.v))
                [] s[k] = "]" -> ParseOk(JArr(Append(acc, r.v)), k + 1)
                [] OTHER -> ParseFail

\* a later duplicate key overrides an earlier one, as in a Python dict
ParseMembers(s, i, acc) ==
    LET j == SkipWs(s, i) IN
    IF j > Len(s) \/ ~IsLiteral(s[j]) THEN ParseFail
    ELSE LET c == SkipWs(s, j + 1) IN
         IF c > Len(s) \/ s[c] # ":" THEN ParseFail
         ELSE LET r == ParseValue(s, c + 1) IN
              IF ~r.ok THEN ParseFail
              ELSE LET k == SkipWs(s, r.next)
                       o == (Unquote(s[j]) :> r.v) @@ acc
                   IN IF k > Len(s) THEN ParseFail
                      ELSE CASE s[k] = "," -> ParseMembers(s, k + 1, o)
                             [] s[k] = "}" -> ParseOk(JObj(o), k + 1)
                             [] OTHER -> ParseFail

json_loads(s) ==
    LET r == ParseValue(s, 1) IN
    IF r.ok /\ SkipWs(s, r.next) > Len(s) THEN [ok |-> TRUE, v |-> r.v]
    ELSE [ok |-> FALSE]

\* d.get(key, default) on a parsed dict
DictGet(d, key, default) == IF key \in DOMAIN d.o THEN d.o[key] ELSE default


(***************************************************************************)
(* Bounds of the model.                                                    *)
(***************************************************************************)
\* number of ids uuid4 may hand out, hence of resumes that can be stored
MaxResumes == 2

UuidPool == {"r" \o ToString(n) : n \in 1..MaxResumes}

(***************************************************************************)
(* The resume store: one text file per id under RESUMES_DIR.               *)
(***************************************************************************)
\* os.linesep of the platform the service runs on (POSIX)
os_linesep == <<"\n">>

\* f.write(text) on a file opened with open(path, 'w', encoding='utf-8'):
\* text mode with newline=None writes each '\n' as os.linesep
RECURSIVE WriteText(_)
WriteText(text) ==
    IF text = << >> THEN << >>
    ELSE (IF Head(text) = "\n" THEN os_linesep ELSE <<Head(text)>>)
         \o WriteText(Tail(text))

\* f.read() on a file opened with open(path, 'r', encoding='utf-8'):
\* text mode with newline=None reads '\r\n' and a lone '\r' as '\n'
RECURSIVE ReadText(_)
ReadText(content) ==
    IF content = << >> THEN << >>
    ELSE IF Head(content) = "\r"
         THEN IF Len(content) >= 2 /\ content[2] = "\n"
              THEN <<"\n">> \o ReadText(Tail(Tail(content)))
              ELSE <<"\n">> \o ReadText(Tail(content))
         ELSE <<Head(content)>> \o ReadText(Tail(content))

\* content.decode('utf-8'): a byte sequence holding an invalid byte raises
InvalidByte == "<ff>"
DecodeOk(bytes) == \A i \in 1..Len(bytes) : bytes[i] # InvalidByte

(***************************************************************************)
(* Inputs.                                                                 *)
(***************************************************************************)
UploadFiles == { None, Some(<<"a", "\r", "\n", "b">>), Some(<<"a", InvalidByte>>) }
UploadTexts == { None, Some(<< >>), Some(<<"a", "\r", "\n", "b">>) }

RequestIds == { None, Some("") } \cup { Some(i) : i \in UuidPool }
RequestTexts == { None, Some(<< >>), Some(<<"a">>) }
RequestSkills == { JNull, JArr(<< >>), JArr(<<JStr("A"), JStr("B")>>) }

VARIABLES
    store,            \* RESUMES_DIR: id -> file content
    uploaded,         \* history: id -> the text upload_resume was given for it
    upload_response,  \* what the last upload_resume returned
    pc,               \* where the request being served is suspended
    req,              \* the request being served
    resume_text,      \* the handler's local resume_text (None until resolved)
    extracted_skills, \* the handler's local extracted_skills
    missing_skills,   \* the handler's local missing_skills
    calls,            \* the backend calls of this request, in order, with their outcome
    reply,            \* the outcome of the last completed backend call
    response          \* the handler's response

vars == <<store, uploaded, upload_response, pc, req, resume_text,
          extracted_skills, missing_skills, calls, reply, response>>

NoRequest == [endpoint |-> "none"]
NoReply == [kind |-> "none"]
NoResponse == [status |-> 0]
EmptyList == JArr(<< >>)

Init ==
    /\ store = << >>
    /\ uploaded = << >>
    /\ upload_response = NoResponse
    /\ pc = "idle"
    /\ req = NoRequest
    /\ resume_text = None
    /\ extracted_skills = EmptyList
    /\ missing_skills = EmptyList
    /\ calls = << >>
    /\ reply = NoReply
    /\ response = NoResponse


(***************************************************************************)
(* The backend.  One POST /api/generate ends in a timeout, a connection    *)
(* failure, a non-200 status, or a 200 whose "response" is a completion.   *)
(***************************************************************************)
Q(s) == Quote(s)
Fence == "~~~"      \* the three-backquote code fence marker

\* JSON texts a completion may embed
SkillsFull ==
    <<"{", Q("skills"), ":", "[", Q("A"), ",", Q("B"), "]", ",",
      Q("years_experience"), ":", Q("3y"), ",",
      Q("role_suggestions"), ":", "[", Q("B"), "]", "}">>
SkillsOnly == <<"{", Q("skills"), ":", " ", "[", Q("A"), "]", "}">>
SkillsNumber == <<"{", Q("skills"), ":", "[", "7", "]", "}">>
MissingOne == <<"{", Q("missing_skills"), ":", "[", Q("A"), "]", "}">>
MissingTwo == <<"{", Q("missing_skills"), ":", "[", Q("A"), ",", Q("B"), "]", "}">>
MissingNone == <<"{", Q("missing_skills"), ":", "[", "]", "}">>
MissingNumber == <<"{", Q("missing_skills"), ":", "[", "7", "]", "}">>
RECURSIVE Repeat(_, _)
Repeat(x, n) == IF n = 0 THEN << >> ELSE x \o Repeat(x, n - 1)
\* {"skill": k, "tasks": [n times "t"]}
GroupText(k, n) ==
    <<"{", Q("skill"), ":", Q(k), ",", Q("tasks"), ":", "[">>
    \o (IF n = 0 THEN << >> ELSE <<Q("t")>> \o Repeat(<<",", Q("t")>>, n - 1))
    \o <<"]", "}">>
TasksOf(groups) == <<"{", Q("weekly_tasks"), ":", "[">> \o groups \o <<"]", "}">>
TasksA == TasksOf(GroupText("A", 2))
TasksAB == TasksOf(GroupText("A", 1) \o <<",">> \o GroupText("B", 7))
TasksLong == TasksOf(GroupText("A", 8))
TasksEmptyGroup == TasksOf(GroupText("A", 0))
TasksEmptyList == TasksOf(<< >>)
TasksNull == <<"{", Q("weekly_tasks"), ":", "null", "}">>

\* the same JSON text wrapped in code fences and in prose
Wrap(b) ==
    { <<Fence, "json", "\n">> \o b \o <<"\n", Fence>>,
      <<Fence, "\n">> \o b \o <<"\n", Fence, "\n">>,
      <<"Sure", ":", " ">> \o b \o <<" ", "Hope", "that", "helps">>,
      <<"Fill", "{", "x", "}", ":", " ">> \o b,
      b \o <<" ", "{", "or", "}">>,
      <<"x", "}", " ">> \o b \o <<" ", "{">> }
\* completions that hold no JSON object, and the empty object
Malformed ==
    { << >>, <<"I", "cannot", "help">>, <<"{", Q("skills"), ":", "[", Q("A"), ",">>,
      <<"7">>, <<"[", Q("A"), "]">>, <<"null">> }
Common == Malformed \cup { <<"{", "}">> }

\* what the backend may answer to each of the four prompts
Completions(call) ==
    CASE call = "analysis" ->
           Common \cup {SkillsFull, SkillsOnly, MissingOne} \cup Wrap(SkillsOnly)
      [] call = "extract" ->
           Common \cup {SkillsOnly, SkillsNumber} \cup Wrap(SkillsOnly)
      [] call = "gap" ->
           Common \cup {MissingOne, MissingTwo, MissingNone, MissingNumber}
                  \cup Wrap(MissingOne)
      [] call = "task" ->
           Common \cup {TasksA, TasksAB, TasksLong, TasksEmptyGroup, TasksEmptyList,
                        TasksNull} \cup Wrap(TasksA)

Outcomes(call) ==
    { [kind |-> "timeout"], [kind |-> "connect"], [kind |-> "status", code |-> 500] }
    \cup { [kind |-> "ok", text |-> c] : c \in Completions(call) }

\* result.get("response", "").strip()
ResponseText(outcome) == strip(outcome.text)


(***************************************************************************)
(* The extraction steps of the handlers.                                   *)
(***************************************************************************)
\* Candidate with the closing brace searched from the left (find for rfind)
Candidate_FirstClosingBrace(text) ==
    LET first_brace == find(text, "{")
        last_brace == find(text, "}")
    IN IF first_brace # -1 /\ last_brace # -1 /\ last_brace > first_brace
       THEN Slice(text, first_brace, last_brace + 1)
       ELSE text

\* the JSON candidate: the slice from the first '{' to the last '}', or the
\* whole text when there is no such pair
Candidate(text) ==
    LET first_brace == find(text, "{")
        last_brace == rfind(text, "}")
    IN IF first_brace # -1 /\ last_brace # -1 /\ last_brace > first_brace
       THEN Slice(text, first_brace, last_brace + 1)
       ELSE text

\* try: json.loads(candidate).get(key, default)  except Exception: default
\* (.get on a value that is not a dict raises AttributeError)
ExtractField(text, key, default) ==
    LET parsed == json_loads(Candidate(text)) IN
    IF parsed.ok /\ parsed.v.t = "obj" THEN DictGet(parsed.v, key, default)
    ELSE default

\* every failure of the call or of the parse is swallowed into {"skills": []}
_extract_skills_from_resume(outcome) ==
    IF outcome.kind # "ok" THEN EmptyList
    ELSE ExtractField(ResponseText(outcome), "skills", EmptyList)

\* the fence stripping of analyze_skills
StripFences(text) ==
    LET t0 == strip(text)
        t1 == IF startswith(t0, <<Fence, "json">>) THEN Slice(t0, 2, Len(t0)) ELSE t0
        t2 == IF startswith(t1, <<Fence>>) THEN Slice(t1, 1, Len(t1)) ELSE t1
        t3 == IF endswith(t2, <<Fence>>) THEN Slice(t2, 0, Len(t2) - 1) ELSE t2
    IN strip(t3)

\* analysis_text[:500]
RawSnippetLen == 500

Ok(body) == [status |-> 200, body |-> body]
HTTPException(code, detail) == [status |-> code, detail |-> detail]

\* the except clauses shared by the three handlers, for a call that did not
\* return a response
TransportError(outcome) ==
    IF outcome.kind = "timeout" THEN HTTPException(504, "Request timeout")
    ELSE HTTPException(503, "Cannot connect to Ollama service")

\* analyze_skills from the backend's answer on
AnalyzeResult(outcome) ==
    IF outcome.kind \in {"timeout", "connect"} THEN TransportError(outcome)
    ELSE IF outcome.kind = "status" THEN HTTPException(500, "Ollama service error")
    ELSE LET analysis_text == StripFences(ResponseText(outcome))
             parsed == json_loads(Candidate(analysis_text))
         IN IF ~parsed.ok
            THEN Ok([skills |-> EmptyList, years_experience |-> JNull,
                     role_suggestions |-> EmptyList,
                     error |-> "Failed to parse LLM response as JSON",
                     raw_response |-> Slice(analysis_text, 0, RawSnippetLen)])
            ELSE IF parsed.v.t # "obj"
            THEN HTTPException(500, "Error: Response is not a JSON object")
            ELSE Ok([skills |-> DictGet(parsed.v, "skills", EmptyList),
                     years_experience |-> DictGet(parsed.v, "years_experience", JNull),
                     role_suggestions |-> DictGet(parsed.v, "role_suggestions", EmptyList)])

\* the characters of a str value (the values used here are one character long)
Chars(s) == CASE s \in {"A", "B", "t"} -> <<s>>

\* the items `for skill in missing_skills` visits
Iterate(v) ==
    CASE v.t = "arr" -> [i \in 1..Len(v.a) |-> v.a[i].s]
      [] v.t = "str" -> Chars(v.s)
      [] OTHER -> << >>

\* the seven template tasks of the fallback
FallbackTasks(skill) ==
    Slice(<< JStr("Study " \o skill \o " fundamentals and core concepts"),
             JStr("Complete online " \o skill \o " tutorial or course"),
             JStr("Practice " \o skill \o " with hands-on exercises"),
             JStr("Build a small project using " \o skill),
             JStr("Read " \o skill \o " documentation and best practices"),
             JStr("Join " \o skill \o " community and participate in discussions"),
             JStr("Create a portfolio piece showcasing " \o skill) >>, 0, 7)

FallbackGroups(missing) ==
    LET items == Iterate(missing) IN
    JArr([i \in 1..Len(items) |->
            JObj([skill |-> JStr(items[i]), tasks |-> JArr(FallbackTasks(items[i]))])])

\* if not weekly_tasks: for skill in missing_skills: weekly_tasks.append(...)
\* ok = FALSE stands for the AttributeError of .append on a value that is
\* falsy and not a list
WithFallback(weekly_tasks, missing) ==
    IF Truthy(weekly_tasks) THEN [ok |-> TRUE, v |-> weekly_tasks]
    ELSE IF weekly_tasks.t = "arr" THEN [ok |-> TRUE, v |-> FallbackGroups(missing)]
    ELSE [ok |-> FALSE]

GapBody(extracted, missing, tasks) ==
    [extracted_skills |-> extracted, missing_skills |-> missing, weekly_tasks |-> tasks]

\* skill_gap_analysis from the answer of the task-generation call on
GapTaskResult(outcome, extracted, missing) ==
    IF outcome.kind \in {"timeout", "connect"} THEN TransportError(outcome)
    ELSE LET weekly_tasks ==
                 IF outcome.kind = "ok"
                 THEN ExtractField(ResponseText(outcome), "weekly_tasks", EmptyList)
                 ELSE EmptyList
             filled == WithFallback(weekly_tasks, missing)
         IN IF filled.ok THEN Ok(GapBody(extracted, missing, filled.v))
            ELSE HTTPException(500, "Error: AttributeError")

\* weekly_learning_task_generator from the answer of its task-generation call on
WeeklyTaskResult(outcome, extracted, missing) ==
    IF outcome.kind \in {"timeout", "connect"} THEN TransportError(outcome)
    ELSE IF outcome.kind = "status" THEN HTTPException(500, "Ollama service error")
    ELSE LET weekly_tasks == ExtractField(ResponseText(outcome), "weekly_tasks", EmptyList)
             filled == WithFallback(weekly_tasks, missing)
         IN IF filled.ok THEN Ok(GapBody(extracted, missing, filled.v))
            ELSE HTTPException(500, "Error: AttributeError")


(***************************************************************************)
(* The handlers.  A handler runs from one await of the backend to the      *)
(* next; the service serves one analysis request at a time here, and       *)
(* uploads arrive at any moment.                                           *)
(***************************************************************************)
\* uuid.uuid4(): an id no stored resume has
uuid4 == UuidPool \ DOMAIN store

\* POST /upload_resume
upload_resume ==
    /\ \E file \in UploadFiles, text \in UploadTexts :
        LET failed == IF file # None THEN ~DecodeOk(file[1]) ELSE ~TruthyText(text)
            new_text == IF file # None THEN file[1] ELSE text[1]
        IN IF failed
           THEN /\ upload_response' = HTTPException(400, "Error processing resume")
                /\ UNCHANGED <<store, uploaded>>
           ELSE \E resume_id \in uuid4 :
                /\ store' = (resume_id :> WriteText(new_text)) @@ store
                /\ uploaded' = (resume_id :> new_text) @@ uploaded
                /\ upload_response' =
                       Ok([resume_id |-> resume_id, size |-> Len(new_text)])
    /\ UNCHANGED <<pc, req, resume_text, extracted_skills, missing_skills,
                   calls, reply, response>>

\* ResolveResume with the two branches swapped: inline text wins over the id
ResolveResume_TextFirst(request) ==
    IF TruthyText(request.resume_text)
    THEN [status |-> 200, text |-> request.resume_text[1]]
    ELSE IF TruthyId(request.resume_id)
    THEN IF request.resume_id[1] \in DOMAIN store
         THEN [status |-> 200, text |-> ReadText(store[request.resume_id[1]])]
         ELSE HTTPException(404, "Resume not found")
    ELSE HTTPException(400, "Either resume_text or resume_id is required")

\* the resume a request names: by id from the store, else inline, else 400
ResolveResume(request) ==
    IF TruthyId(request.resume_id)
    THEN IF request.resume_id[1] \in DOMAIN store
         THEN [status |-> 200, text |-> ReadText(store[request.resume_id[1]])]
         ELSE HTTPException(404, "Resume not found")
    ELSE IF TruthyText(request.resume_text)
    THEN [status |-> 200, text |-> request.resume_text[1]]
    ELSE HTTPException(400, "Either resume_text or resume_id is required")

Requests(endpoint) ==
    { [endpoint |-> endpoint, resume_id |-> i, resume_text |-> x] :
          i \in RequestIds, x \in RequestTexts }
WeeklyRequests ==
    { [endpoint |-> "weekly_learning_task_generator", resume_id |-> i,
       resume_text |-> x, missing_skills |-> m] :
          i \in RequestIds, x \in RequestTexts, m \in RequestSkills }

Pending(call) == [call |-> call, result |-> "pending"]
Completed(outcome) ==
    [calls EXCEPT ![Len(calls)] = [@ EXCEPT !.result = outcome.kind]]

\* the handler returns or raises: the request is over
Finish(result) ==
    /\ pc' = "done"
    /\ response' = result

Idle == pc = "idle"

\* POST /analyze_skills, up to the backend call
analyze_skills ==
    \E request \in Requests("analyze_skills") :
        /\ Idle
        /\ req' = request
        /\ extracted_skills' = EmptyList
        /\ missing_skills' = EmptyList
        /\ reply' = NoReply
        /\ LET resume == ResolveResume(request) IN
           IF resume.status # 200
           THEN /\ Finish(resume)
                /\ calls' = << >>
                /\ resume_text' = None
           ELSE /\ pc' = "await_analysis"
                /\ calls' = <<Pending("analysis")>>
                /\ response' = NoResponse
                /\ resume_text' = Some(resume.text)
        /\ UNCHANGED <<store, uploaded, upload_response>>

\* analyze_skills, from the backend's answer to the response
analyze_skills_reply ==
    \E outcome \in Outcomes("analysis") :
        /\ pc = "await_analysis"
        /\ reply' = outcome
        /\ calls' = Completed(outcome)
        /\ Finish(AnalyzeResult(outcome))
        /\ UNCHANGED <<store, uploaded, upload_response, req, resume_text,
                       extracted_skills, missing_skills>>

\* POST /skill_gap_analysis, up to the call of _extract_skills_from_resume
skill_gap_analysis ==
    \E request \in Requests("skill_gap_analysis") :
        /\ Idle
        /\ req' = request
        /\ extracted_skills' = EmptyList
        /\ missing_skills' = EmptyList
        /\ reply' = NoReply
        /\ LET resume == ResolveResume(request) IN
           IF resume.status # 200
           THEN /\ Finish(resume)
                /\ calls' = << >>
                /\ resume_text' = None
           ELSE /\ pc' = "await_extract"
                /\ calls' = <<Pending("extract")>>
                /\ response' = NoResponse
                /\ resume_text' = Some(resume.text)
        /\ UNCHANGED <<store, uploaded, upload_response>>

\* skill_gap_analysis, from the extracted skills to the missing-skills call;
\* the prompt is built outside the try block, so a join that raises is unhandled
skill_gap_analysis_extracted ==
    \E outcome \in Outcomes("extract") :
        /\ pc = "await_extract"
        /\ req.endpoint = "skill_gap_analysis"
        /\ reply' = outcome
        /\ LET skills == _extract_skills_from_resume(outcome) IN
           /\ extracted_skills' = skills
           /\ IF Truthy(skills) /\ ~JoinOk(skills)
              THEN /\ Finish(HTTPException(500, "Internal Server Error"))
                   /\ calls' = Completed(outcome)
              ELSE /\ pc' = "await_gap"
                   /\ calls' = Append(Completed(outcome), Pending("gap"))
                   /\ response' = NoResponse
        /\ UNCHANGED <<store, uploaded, upload_response, req, resume_text,
                       missing_skills>>

\* skill_gap_analysis, from the answer of the missing-skills call to the
\* task-generation call, or to the response when nothing is missing
skill_gap_analysis_gap_reply ==
    \E outcome \in Outcomes("gap") :
        /\ pc = "await_gap"
        /\ reply' = outcome
        /\ IF outcome.kind \in {"timeout", "connect"}
           THEN /\ Finish(TransportError(outcome))
                /\ calls' = Completed(outcome)
                /\ UNCHANGED missing_skills
           ELSE IF outcome.kind = "status"
           THEN /\ Finish(HTTPException(500, "Ollama service error"))
                /\ calls' = Completed(outcome)
                /\ UNCHANGED missing_skills
           ELSE LET missing == ExtractField(ResponseText(outcome), "missing_skills",
                                            EmptyList)
                IN /\ missing_skills' = missing
                   /\ IF ~Truthy(missing)
                      THEN /\ Finish(Ok(GapBody(extracted_skills, missing, EmptyList)))
                           /\ calls' = Completed(outcome)
                      ELSE IF ~JoinOk(missing)
                      THEN /\ Finish(HTTPException(500, "Error: TypeError"))
                           /\ calls' = Completed(outcome)
                      ELSE /\ pc' = "await_task"
                           /\ calls' = Append(Completed(outcome), Pending("task"))
                           /\ response' = NoResponse
        /\ UNCHANGED <<store, uploaded, upload_response, req, resume_text,
                       extracted_skills>>

\* skill_gap_analysis, from the answer of the task-generation call to the response
skill_gap_analysis_task_reply ==
    \E outcome \in Outcomes("task") :
        /\ pc = "await_task"
        /\ req.endpoint = "skill_gap_analysis"
        /\ reply' = outcome
        /\ calls' = Completed(outcome)
        /\ Finish(GapTaskResult(outcome, extracted_skills, missing_skills))
        /\ UNCHANGED <<store, uploaded, upload_response, req, resume_text,
                       extracted_skills, missing_skills>>

\* POST /weekly_learning_task_generator, up to its first backend call
weekly_learning_task_generator ==
    \E request \in WeeklyRequests :
        /\ Idle
        /\ req' = request
        /\ extracted_skills' = EmptyList
        /\ reply' = NoReply
        /\ LET missing == IF Truthy(request.missing_skills)
                          THEN request.missing_skills ELSE EmptyList
           IN /\ missing_skills' = missing
              /\ IF ~Truthy(missing)
                 THEN LET resume == ResolveResume(request) IN
                      IF resume.status # 200
                      THEN /\ Finish(IF resume.status = 400
                                     THEN HTTPException(400,
                                       "Either resume_text, resume_id, or missing_skills must be provided")
                                     ELSE resume)
                           /\ calls' = << >>
                           /\ resume_text' = None
                      ELSE /\ pc' = "await_extract"
                           /\ calls' = <<Pending("extract")>>
                           /\ response' = NoResponse
                           /\ resume_text' = Some(resume.text)
                 ELSE /\ resume_text' = None
                      /\ IF ~JoinOk(missing)
                         THEN /\ Finish(HTTPException(500, "Internal Server Error"))
                              /\ calls' = << >>
                         ELSE /\ pc' = "await_task"
                              /\ calls' = <<Pending("task")>>
                              /\ response' = NoResponse
        /\ UNCHANGED <<store, uploaded, upload_response>>

\* weekly_learning_task_generator_extracted with the error handling of the
\* other backend calls applied to the extraction call
weekly_learning_task_generator_extracted_raising ==
    \E outcome \in Outcomes("extract") :
        /\ pc = "await_extract"
        /\ req.endpoint = "weekly_learning_task_generator"
        /\ reply' = outcome
        /\ calls' = Completed(outcome)
        /\ LET skills == _extract_skills_from_resume(outcome) IN
           /\ extracted_skills' = skills
           /\ Finish(IF outcome.kind \in {"timeout", "connect"}
                     THEN TransportError(outcome)
                     ELSE IF outcome.kind = "status"
                     THEN HTTPException(500, "Ollama service error")
                     ELSE Ok(GapBody(skills, EmptyList, EmptyList)))
        /\ UNCHANGED <<store, uploaded, upload_response, req, resume_text,
                       missing_skills>>

\* weekly_learning_task_generator without missing skills: the extracted skills
\* come back with empty missing_skills and weekly_tasks
weekly_learning_task_generator_extracted ==
    \E outcome \in Outcomes("extract") :
        /\ pc = "await_extract"
        /\ req.endpoint = "weekly_learning_task_generator"
        /\ reply' = outcome
        /\ calls' = Completed(outcome)
        /\ LET skills == _extract_skills_from_resume(outcome) IN
           /\ extracted_skills' = skills
           /\ Finish(Ok(GapBody(skills, EmptyList, EmptyList)))
        /\ UNCHANGED <<store, uploaded, upload_response, req, resume_text,
                       missing_skills>>

\* weekly_learning_task_generator, from the answer of the task-generation call on
weekly_learning_task_generator_task_reply ==
    \E outcome \in Outcomes("task") :
        /\ pc = "await_task"
        /\ req.endpoint = "weekly_learning_task_generator"
        /\ reply' = outcome
        /\ calls' = Completed(outcome)
        /\ Finish(WeeklyTaskResult(outcome, extracted_skills, missing_skills))
        /\ UNCHANGED <<store, uploaded, upload_response, req, resume_text,
                       extracted_skills, missing_skills>>

\* the response has been sent: the handler's frame is gone and the service
\* takes the next request
request_served ==
    /\ pc = "done"
    /\ pc' = "idle"
    /\ req' = NoRequest
    /\ resume_text' = None
    /\ extracted_skills' = EmptyList
    /\ missing_skills' = EmptyList
    /\ calls' = << >>
    /\ reply' = NoReply
    /\ response' = NoResponse
    /\ UNCHANGED <<store, uploaded, upload_response>>

Next ==
    \/ upload_resume
    \/ analyze_skills
    \/ analyze_skills_reply
    \/ skill_gap_analysis
    \/ skill_gap_analysis_extracted
    \/ skill_gap_analysis_gap_reply
    \/ skill_gap_analysis_task_reply
    \/ weekly_learning_task_generator
    \/ weekly_learning_task_generator_extracted
    \/ weekly_learning_task_generator_task_reply
    \/ request_served

Spec == Init /\ [][Next]_vars


(***************************************************************************)
(* Vocabulary of the properties.                                           *)
(***************************************************************************)
Done == pc = "done"
LastCall == calls[Len(calls)]
\* the backend call `reply` answers: the last one that has completed
ReplyCall ==
    IF calls = << >> THEN "none"
    ELSE IF LastCall.result # "pending" THEN LastCall.call
    ELSE IF Len(calls) >= 2 THEN calls[Len(calls) - 1].call
    ELSE "none"
IsGroup(g) ==
    g.t = "obj" /\ {"skill", "tasks"} \subseteq DOMAIN g.o /\ g.o.tasks.t = "arr"

\* the well-formed JSON objects a text holds, as index pairs, and the
\* outermost ones among them
ObjectsIn(text) ==
    LET opens == { i \in 1..Len(text) : text[i] = "{" }
        closes == { i \in 1..Len(text) : text[i] = "}" }
    IN { p \in opens \X closes :
           /\ p[1] < p[2]
           /\ LET r == json_loads(SubSeq(text, p[1], p[2])) IN r.ok /\ r.v.t = "obj" }
OuterObjectsIn(text) ==
    LET objs == ObjectsIn(text) IN
    { p \in objs : ~\E q \in objs : q # p /\ q[1] <= p[1] /\ p[2] <= q[2] }
ObjectAt(text, p) == json_loads(SubSeq(text, p[1], p[2])).v
\* no '{' in the text before the span p and no '}' in the text after it
BraceFreeAround(text, p) ==
    /\ \A i \in 1..(p[1] - 1) : text[i] # "{"
    /\ \A i \in (p[2] + 1)..Len(text) : text[i] # "}"

(***************************************************************************)
(* C1.  After a task-generation call answered with status 200, for a       *)
(* non-empty missing_skills list, the response is normal and weekly_tasks  *)
(* holds exactly one group per missing skill, each group has 1 to 7 tasks, *)
(* and a skill the model's weekly_tasks omits has the 7 fallback tasks.    *)
(***************************************************************************)
C1_OneGroupPerMissingSkill ==
    (Done /\ ReplyCall = "task" /\ reply.kind = "ok") =>
        /\ response.status = 200
        /\ LET wt == response.body.weekly_tasks
               ms == Iterate(missing_skills)
               model == ExtractField(ResponseText(reply), "weekly_tasks", EmptyList)
               GroupsOf(v, skill) ==
                   IF v.t # "arr" THEN {}
                   ELSE { j \in 1..Len(v.a) :
                            IsGroup(v.a[j]) /\ v.a[j].o.skill = JStr(skill) }
           IN /\ wt.t = "arr"
              /\ Len(wt.a) = Len(ms)
              /\ \A j \in 1..Len(wt.a) :
                    IsGroup(wt.a[j]) /\ Len(wt.a[j].o.tasks.a) \in 1..7
              /\ \A i \in 1..Len(ms) :
                    /\ Cardinality(GroupsOf(wt, ms[i])) = 1
                    /\ GroupsOf(model, ms[i]) = {} =>
                          \A j \in GroupsOf(wt, ms[i]) :
                              wt.a[j].o.tasks.a = FallbackTasks(ms[i])

(***************************************************************************)
(* C2.  When the task-generation call fails (timeout, connection failure,  *)
(* non-200 status), the request completes normally and weekly_tasks holds, *)
(* for each missing skill in order, the group of its 7 fallback tasks.     *)
(***************************************************************************)
C2_FallbackWhenTaskCallFails ==
    (Done /\ ReplyCall = "task" /\ reply.kind \in {"timeout", "connect", "status"}) =>
        response = Ok(GapBody(extracted_skills, missing_skills,
                              FallbackGroups(missing_skills)))

(***************************************************************************)
(* C3.  A completion returned with status 200 that holds no JSON object    *)
(* (empty, truncated, without braces, or JSON that is not an object)       *)
(* makes the stage yield its defaults, and the request does not end in an  *)
(* error response.                                                         *)
(***************************************************************************)
C3_MalformedCompletionYieldsDefaults ==
    (reply.kind = "ok" /\ ObjectsIn(reply.text) = {}) =>
        CASE ReplyCall = "analysis" ->
               /\ Done
               /\ response.status = 200
               /\ response.body.skills = EmptyList
               /\ response.body.years_experience = JNull
               /\ response.body.role_suggestions = EmptyList
          [] ReplyCall = "extract" ->
               /\ extracted_skills = EmptyList
               /\ Done => response.status = 200
          [] ReplyCall = "gap" ->
               /\ Done
               /\ response = Ok(GapBody(extracted_skills, EmptyList, EmptyList))
          [] ReplyCall = "task" ->
               /\ Done
               /\ response.status = 200

(***************************************************************************)
(* C4.  Every backend call that times out ends the request with 504, every *)
(* call that cannot connect with 503, every call answered with a non-200   *)
(* status with 500.                                                        *)
(***************************************************************************)
C4_BackendFailureAbortsRequest ==
    \A i \in 1..Len(calls) :
        /\ calls[i].result = "timeout" => (Done /\ response.status = 504)
        /\ calls[i].result = "connect" => (Done /\ response.status = 503)
        /\ calls[i].result = "status" => (Done /\ response.status = 500)

(***************************************************************************)
(* C5.  A request is "supplied" a field when the field is truthy (a        *)
(* non-empty string or list).                                              *)
(***************************************************************************)
IsWeekly == req.endpoint = "weekly_learning_task_generator"
SuppliesSkills == IsWeekly /\ Truthy(req.missing_skills)
Rejected(code) == Done /\ response.status = code /\ calls = << >>

\* C5 as claimed: a request that supplies no resume text, no resume id and
\* no missing-skills list is rejected with 400, a request whose resume id is
\* not in the store is rejected with 404 whatever else it carries, and
\* neither issues a backend call.
C5_RejectedBeforeAnyCall ==
    req # NoRequest =>
        /\ (~TruthyId(req.resume_id) /\ ~TruthyText(req.resume_text) /\ ~SuppliesSkills)
              => Rejected(400)
        /\ (TruthyId(req.resume_id) /\ req.resume_id[1] \notin DOMAIN store)
              => Rejected(404)

\* C5 amended: the same, except that weekly_learning_task_generator given a
\* non-empty missing-skills list never looks at the resume id.
C5_RejectedBeforeAnyCallUnlessSkillsGiven ==
    req # NoRequest =>
        /\ (~TruthyId(req.resume_id) /\ ~TruthyText(req.resume_text) /\ ~SuppliesSkills)
              => Rejected(400)
        /\ (TruthyId(req.resume_id) /\ req.resume_id[1] \notin DOMAIN store
            /\ ~SuppliesSkills)
              => Rejected(404)

\* a task-generator request with inline text and an unknown id was rejected
C5_Witness ==
    /\ IsWeekly
    /\ TruthyId(req.resume_id) /\ req.resume_id[1] \notin DOMAIN store
    /\ TruthyText(req.resume_text)
    /\ Rejected(404)

(***************************************************************************)
(* C6.  weekly_learning_task_generator answers the outcome of its          *)
(* task-generation call as the third stage of skill_gap_analysis answers   *)
(* the same outcome for the same missing skills: same status, and on       *)
(* success the same missing_skills and weekly_tasks.                       *)
(***************************************************************************)
C6_WeeklyMatchesGapThirdStage ==
    (Done /\ IsWeekly /\ ReplyCall = "task") =>
        LET gap == GapTaskResult(reply, extracted_skills, missing_skills) IN
        /\ response.status = gap.status
        /\ response.status = 200 =>
              /\ response.body.missing_skills = gap.body.missing_skills
              /\ response.body.weekly_tasks = gap.body.weekly_tasks

(***************************************************************************)
(* C7.  What a stage yields when its completion holds the object obj.      *)
(***************************************************************************)
StageRecovers(obj) ==
    CASE ReplyCall = "analysis" ->
           /\ Done
           /\ response =
                Ok([skills |-> DictGet(obj, "skills", EmptyList),
                    years_experience |-> DictGet(obj, "years_experience", JNull),
                    role_suggestions |-> DictGet(obj, "role_suggestions", EmptyList)])
      [] ReplyCall = "extract" ->
           extracted_skills = DictGet(obj, "skills", EmptyList)
      [] ReplyCall = "gap" ->
           missing_skills = DictGet(obj, "missing_skills", EmptyList)
      [] ReplyCall = "task" ->
           LET filled == WithFallback(DictGet(obj, "weekly_tasks", EmptyList),
                                      missing_skills)
           IN /\ Done
              /\ response = IF filled.ok
                            THEN Ok(GapBody(extracted_skills, missing_skills, filled.v))
                            ELSE HTTPException(500, "Error: AttributeError")

\* C7 as claimed: a completion that holds a single well-formed JSON object,
\* whatever surrounds it, gives the stage exactly that object's fields.
C7_SingleObjectRecovered ==
    reply.kind = "ok" =>
        LET outer == OuterObjectsIn(reply.text) IN
        \A p \in outer :
            outer = {p} => StageRecovers(ObjectAt(reply.text, p))

\* C7 amended: provided the text before the object holds no '{' and the text
\* after it no '}'.
C7_SingleObjectRecoveredFromBraceFreeProse ==
    reply.kind = "ok" =>
        LET outer == OuterObjectsIn(reply.text) IN
        \A p \in outer :
            (outer = {p} /\ BraceFreeAround(reply.text, p)) =>
                StageRecovers(ObjectAt(reply.text, p))

\* the task stage recovered the model's groups from a fenced completion
C7_Witness ==
    /\ Done /\ ReplyCall = "task" /\ reply.kind = "ok"
    /\ startswith(reply.text, <<Fence, "json">>)
    /\ \E p \in OuterObjectsIn(reply.text) :
          /\ OuterObjectsIn(reply.text) = {p}
          /\ BraceFreeAround(reply.text, p)
          /\ response.status = 200
          /\ response.body.weekly_tasks = ObjectAt(reply.text, p).o.weekly_tasks

(***************************************************************************)
(* C8.  weekly_learning_task_generator without missing skills and with a   *)
(* resolved resume issues the extraction call and nothing else, and        *)
(* answers 200 with the extracted skills, missing_skills = [] and          *)
(* weekly_tasks = [], whatever the backend returned.                       *)
(***************************************************************************)
C8_ExtractOnlyPath ==
    (IsWeekly /\ ~Truthy(req.missing_skills) /\ resume_text # None) =>
        /\ Len(calls) = 1 /\ calls[1].call = "extract"
        /\ pc \in {"await_extract", "done"}
        /\ Done =>
              /\ response.status = 200
              /\ response.body.missing_skills = EmptyList
              /\ response.body.weekly_tasks = EmptyList
              /\ response.body.extracted_skills =
                    IF reply.kind = "ok"
                    THEN ExtractField(ResponseText(reply), "skills", EmptyList)
                    ELSE EmptyList

\* the extraction call timed out and the request still answered 200
C8_Witness ==
    /\ IsWeekly /\ ~Truthy(req.missing_skills) /\ resume_text # None
    /\ Done /\ reply.kind = "timeout"
    /\ response.status = 200

(***************************************************************************)
(* C9.  analyze_skills issues exactly one call; skill_gap_analysis issues  *)
(* the extraction call, then the missing-skills call, then the             *)
(* task-generation call exactly when missing_skills is non-empty; at most  *)
(* one call is pending, and it is the last one.                            *)
(***************************************************************************)
C9_CallsInSequence ==
    /\ \A i \in 1..(Len(calls) - 1) : calls[i].result # "pending"
    /\ (req.endpoint = "analyze_skills" /\ resume_text # None) =>
          (Len(calls) = 1 /\ calls[1].call = "analysis")
    /\ (req.endpoint = "skill_gap_analysis" /\ resume_text # None) =>
          /\ Len(calls) \in 1..3
          /\ \A i \in 1..Len(calls) : calls[i].call = <<"extract", "gap", "task">>[i]
          /\ calls[1].result # "pending" => Len(calls) >= 2
          /\ (Len(calls) >= 2 /\ calls[2].result # "pending") =>
                (Len(calls) = 3 <=> Truthy(missing_skills))

(***************************************************************************)
(* C10.  The store holds exactly the uploaded resumes, and reading an      *)
(* uploaded id back, in the store or in a handler, gives the text that was *)
(* uploaded under it.                                                      *)
(***************************************************************************)
C10_LookupReturnsUploadedText ==
    /\ DOMAIN store = DOMAIN uploaded
    /\ \A id \in DOMAIN uploaded : ReadText(store[id]) = uploaded[id]
    /\ (req # NoRequest /\ TruthyId(req.resume_id) /\ resume_text # None) =>
          resume_text[1] = uploaded[req.resume_id[1]]

=============================================================================
